---- MODULE Spec2Model ----
(***************************************************************************)
(* Model of pkg/diff/cache/local/local.go: the process-local diff cache.   *)
(*                                                                         *)
(* The patch history store (localCache.data guarded by localCache.dataLock)*)
(* is modelled statement by statement: every caller goroutine and the trim *)
(* loop goroutine has a program counter, and each action is one step of    *)
(* the Go code between two points where another goroutine may run.         *)
(***************************************************************************)
EXTENDS Integers, Sequences, FiniteSets, TLC

\* ------------------------------------------------------------------ bounds
\* Wall-clock time runs from 0 to MaxTime.
MaxTime == 2

\* Caller goroutines that invoke the public operations concurrently.
Callers == {"c1", "c2"}

\* object.String() of the tracked objects.
Objects == {"a", "a/b"}

\* Resource versions that occur in patches and in Fetch arguments.
Patches ==
    { [old |-> "1", new |-> "2"],
      [old |-> "1", new |-> "3"] }

OldRvs == {"1"}

\* A nil *string for the new resource version.
NoRv == "<nil>"

NewRvs == {NoRv, "2", "3"}

\* limit arguments of List.
Limits == {0, 1}

\* Configured patch expiries (CommonOptions.PatchTtl), in clock ticks.
PatchTtls == {-1, 0, 1}

\* The trim interval (time.Hour in Start), in clock ticks.
Interval == 1

\* Snapshot names and snapshot payloads of StoreSnapshot / FetchSnapshot.
SnapshotNames == {"n"}
Snapshots == {"s1"}

\* The object whose snapshots the full specification exercises.
SnapshotObjects == {"a"}

\* The configured snapshot TTL (CommonOptions.SnapshotTtl), in clock ticks.
SnapshotTtl == 1

\* A nil *diffcache.Snapshot.
NoSnapshot == "<nil>"

\* The zero value of time.Time, earlier than every time.Now().
ZeroTime == -1

\* A nil *diffcache.Patch.
NoPatch == [old |-> "", new |-> ""]

TrimProc == "trim"

VARIABLES
    cfg,          \* the options: PatchTtl and the resolver's policy
    now,          \* the wall clock
    data,         \* localCache.data: object string -> history
    dataLock,     \* localCache.dataLock: the holders of the RWMutex
    pc,           \* position of each caller goroutine
    call,         \* arguments, locals and return value of each caller
    started,      \* Start has been called
    stopCh,       \* the shutdown channel is closed
    trimPc,       \* position of the runTrimLoop goroutine
    trimDeadline, \* when the pending time.After(interval) fires
    trimScanned,  \* keys the range loop of doTrim has visited
    removals,     \* doTrim's removals slice
    snapshotCache,\* the TtlOnce cache: composite key -> entry
    lastStore,    \* history variable: per object and key, the patch of the
                  \* Store that last acquired the exclusive lock, since the
                  \* object's last eviction
    overwrote,    \* history variable: the (object, key) pairs whose lastStore
                  \* entry replaced a different patch
    scanAge,      \* history variable: age of each History as doTrim scanned it
    storedAt      \* history variable, recorded by SpecAged alone: per object
                  \* and key, the time of the Store recorded in lastStore

vars == << cfg, now, data, dataLock, pc, call, started, stopCh, trimPc,
           trimDeadline, trimScanned, removals, snapshotCache, lastStore,
           overwrote, scanAge, storedAt >>

callerVars == << pc, call >>
trimVars == << trimPc, trimDeadline, trimScanned, removals, scanAge >>
ghostVars == << lastStore, overwrote, storedAt >>

\* ----------------------------------------------------------------- helpers
EmptyMap == << >>

\* m with key k mapped to v (Go: m[k] = v).
MapPut(m, k, v) == [x \in (DOMAIN m) \cup {k} |-> IF x = k THEN v ELSE m[x]]

\* m without key k (Go: delete(m, k)).
MapDelete(m, k) == [x \in (DOMAIN m) \ {k} |-> m[x]]

NoCall == [op |-> "none"]

\* The Version Key Resolver, CommonOptions.ChooseResourceVersion.
ChooseResourceVersion(oldRv, newRv) ==
    IF cfg.UseOldResourceVersion
    THEN [key |-> oldRv, err |-> FALSE]
    ELSE IF newRv # NoRv
         THEN [key |-> newRv, err |-> FALSE]
         ELSE [key |-> "", err |-> TRUE]

\* sync.RWMutex. writer holds the lock exclusively, readers hold it shared.
\* A call of Lock that finds readers announces itself (pending): from then on
\* new calls of RLock block, and Lock returns once the readers have left.
Unlocked == [writer |-> {}, pending |-> {}, readers |-> {}]

\* p can proceed inside Lock().
CanLock(p) ==
    /\ dataLock.writer = {}
    /\ dataLock.pending \subseteq {p}
    /\ (dataLock.pending = {p}) => (dataLock.readers = {})

\* Lock() returns to its caller in this step.
LockReturns == dataLock.readers = {}

CanRLock == dataLock.writer = {} /\ dataLock.pending = {}

Lock(p) ==
    IF LockReturns
    THEN [dataLock EXCEPT !.writer = {p}, !.pending = {}]
    ELSE [dataLock EXCEPT !.pending = {p}]
Unlock(p) == [dataLock EXCEPT !.writer = @ \ {p}]
RLock(p) == [dataLock EXCEPT !.readers = @ \cup {p}]
RUnlock(p) == [dataLock EXCEPT !.readers = @ \ {p}]

\* ------------------------------------------------------------------- Init
Configs == [PatchTtl : PatchTtls, UseOldResourceVersion : BOOLEAN]

InitWith(configs) ==
    /\ cfg \in configs
    /\ now = 0
    /\ data = EmptyMap
    /\ dataLock = Unlocked
    /\ pc = [c \in Callers |-> "idle"]
    /\ call = [c \in Callers |-> NoCall]
    /\ started = FALSE
    /\ stopCh = FALSE
    /\ trimPc = "notStarted"
    /\ trimDeadline = 0
    /\ trimScanned = {}
    /\ removals = << >>
    /\ snapshotCache = EmptyMap
    /\ lastStore = EmptyMap
    /\ overwrote = {}
    /\ scanAge = EmptyMap
    /\ storedAt = EmptyMap

Init == InitWith(Configs)

\* ------------------------------------------------------------------ clock
Tick ==
    /\ now < MaxTime
    /\ now' = now + 1
    /\ UNCHANGED << cfg, data, dataLock, pc, call, started, stopCh, trimVars,
                    snapshotCache, ghostVars >>

\* ------------------------------------------------------------------ Store
\* A caller invokes Store(ctx, object, patch). The arguments are immutable
\* and the code reads them only once it holds the lock, so the model draws
\* them when the lock is acquired.
StoreCall(c) ==
    /\ started
    /\ pc[c] = "idle"
    /\ pc' = [pc EXCEPT ![c] = "Store_Lock"]
    /\ UNCHANGED << cfg, now, data, dataLock, call, started, stopCh, trimVars,
                    snapshotCache, ghostVars >>

\* cache.dataLock.Lock()
StoreLock(c) ==
    /\ pc[c] = "Store_Lock"
    /\ CanLock(c)
    /\ dataLock' = Lock(c)
    /\ IF LockReturns
       THEN /\ pc' = [pc EXCEPT ![c] = "Store_Create"]
            /\ \E o \in Objects, p \in Patches :
                  /\ call' = [call EXCEPT ![c] =
                                  [op |-> "Store", obj |-> o, patch |-> p]]
                  /\ LET k == ChooseResourceVersion(p.old, p.new).key
                         h == IF o \in DOMAIN lastStore
                              THEN lastStore[o]
                              ELSE EmptyMap
                     IN  /\ lastStore' = MapPut(lastStore, o, MapPut(h, k, p))
                         /\ overwrote' = IF k \in DOMAIN h /\ h[k] # p
                                          THEN overwrote \cup {<<o, k>>}
                                          ELSE overwrote
       ELSE UNCHANGED << pc, call, lastStore, overwrote >>
    /\ UNCHANGED << cfg, now, data, started, stopCh, trimVars, snapshotCache,
                    storedAt >>

\* Faulty variant: a fresh History replaces the one the object already has.
StoreCreate_Always(c) ==
    /\ pc[c] = "Store_Create"
    /\ data' = MapPut(data, call[c].obj,
                      [lastModify |-> ZeroTime, patches |-> EmptyMap])
    /\ pc' = [pc EXCEPT ![c] = "Store_Touch"]
    /\ UNCHANGED << cfg, now, dataLock, call, started, stopCh, trimVars,
                    snapshotCache, ghostVars >>

\* if _, exists := cache.data[object.String()]; !exists { cache.data[...] = &history{...} }
StoreCreate(c) ==
    /\ pc[c] = "Store_Create"
    /\ LET o == call[c].obj
       IN  data' = IF o \in DOMAIN data
                   THEN data
                   ELSE MapPut(data, o, [lastModify |-> ZeroTime, patches |-> EmptyMap])
    /\ pc' = [pc EXCEPT ![c] = "Store_Touch"]
    /\ UNCHANGED << cfg, now, dataLock, call, started, stopCh, trimVars,
                    snapshotCache, ghostVars >>

\* The history variable storedAt after a Store to o of patch p whose
\* time.Now() is the current time.
Stamped(o, p) ==
    LET t == IF o \in DOMAIN storedAt THEN storedAt[o] ELSE EmptyMap
    IN  MapPut(storedAt, o,
               MapPut(t, ChooseResourceVersion(p.old, p.new).key, now))

\* Faulty variant: lastModify is set when the History is new and kept
\* afterwards.
StoreTouchAt_OnCreate(c, stamp) ==
    /\ pc[c] = "Store_Touch"
    /\ LET o == call[c].obj
       IN  data' = IF o \in DOMAIN data /\ data[o].lastModify = ZeroTime
                   THEN [data EXCEPT ![o].lastModify = now]
                   ELSE data
    /\ storedAt' = IF stamp THEN Stamped(call[c].obj, call[c].patch) ELSE storedAt
    /\ pc' = [pc EXCEPT ![c] = "Store_Insert"]
    /\ UNCHANGED << cfg, now, dataLock, call, started, stopCh, trimVars,
                    snapshotCache, lastStore, overwrote >>

\* patches := cache.data[object.String()]; patches.lastModify = time.Now()
\* With stamp, the time is recorded in the history variable storedAt.
StoreTouchAt(c, stamp) ==
    /\ pc[c] = "Store_Touch"
    /\ LET o == call[c].obj
       IN  data' = IF o \in DOMAIN data
                   THEN [data EXCEPT ![o].lastModify = now]
                   ELSE data
    /\ storedAt' = IF stamp THEN Stamped(call[c].obj, call[c].patch) ELSE storedAt
    /\ pc' = [pc EXCEPT ![c] = "Store_Insert"]
    /\ UNCHANGED << cfg, now, dataLock, call, started, stopCh, trimVars,
                    snapshotCache, lastStore, overwrote >>

\* Faulty variant: the lastModify of every History is refreshed.
StoreTouch_All(c) ==
    /\ pc[c] = "Store_Touch"
    /\ data' = [o \in DOMAIN data |-> [data[o] EXCEPT !.lastModify = now]]
    /\ pc' = [pc EXCEPT ![c] = "Store_Insert"]
    /\ UNCHANGED << cfg, now, dataLock, call, started, stopCh, trimVars,
                    snapshotCache, ghostVars >>

StoreTouch(c) == StoreTouchAt(c, FALSE)

StoreTouchStamped(c) == StoreTouchAt(c, TRUE)

\* Faulty variant: the patch is inserted under its old resource version,
\* whatever the resolver's policy.
StoreInsert_KeyOld(c) ==
    /\ pc[c] = "Store_Insert"
    /\ LET o == call[c].obj
       IN  data' = IF o \in DOMAIN data
                   THEN [data EXCEPT ![o].patches =
                            MapPut(@, call[c].patch.old, call[c].patch)]
                   ELSE data
    /\ pc' = [pc EXCEPT ![c] = "Store_Unlock"]
    /\ UNCHANGED << cfg, now, dataLock, call, started, stopCh, trimVars,
                    snapshotCache, ghostVars >>

\* Faulty variant: the resolver is called without a new resource version, and
\* its error is ignored.
StoreInsert_NilNew(c) ==
    /\ pc[c] = "Store_Insert"
    /\ LET o == call[c].obj
           keyRv == ChooseResourceVersion(call[c].patch.old, NoRv).key
       IN  data' = IF o \in DOMAIN data
                   THEN [data EXCEPT ![o].patches = MapPut(@, keyRv, call[c].patch)]
                   ELSE data
    /\ pc' = [pc EXCEPT ![c] = "Store_Unlock"]
    /\ UNCHANGED << cfg, now, dataLock, call, started, stopCh, trimVars,
                    snapshotCache, ghostVars >>

\* Faulty variant: an existing key is not overwritten.
StoreInsert_KeepFirst(c) ==
    /\ pc[c] = "Store_Insert"
    /\ LET o == call[c].obj
           keyRv == ChooseResourceVersion(call[c].patch.old, call[c].patch.new).key
       IN  data' = IF o \in DOMAIN data /\ keyRv \notin DOMAIN data[o].patches
                   THEN [data EXCEPT ![o].patches = MapPut(@, keyRv, call[c].patch)]
                   ELSE data
    /\ pc' = [pc EXCEPT ![c] = "Store_Unlock"]
    /\ UNCHANGED << cfg, now, dataLock, call, started, stopCh, trimVars,
                    snapshotCache, ghostVars >>

\* keyRv, _ := ChooseResourceVersion(patch.OldResourceVersion, &patch.NewResourceVersion)
\* patches.patches[keyRv] = patch
StoreInsert(c) ==
    /\ pc[c] = "Store_Insert"
    /\ LET o == call[c].obj
           keyRv == ChooseResourceVersion(call[c].patch.old, call[c].patch.new).key
       IN  data' = IF o \in DOMAIN data
                   THEN [data EXCEPT ![o].patches = MapPut(@, keyRv, call[c].patch)]
                   ELSE data
    /\ pc' = [pc EXCEPT ![c] = "Store_Unlock"]
    /\ UNCHANGED << cfg, now, dataLock, call, started, stopCh, trimVars,
                    snapshotCache, ghostVars >>

\* Faulty variant: Store returns without releasing the lock.
StoreUnlock_Keep(c) ==
    /\ pc[c] = "Store_Unlock"
    /\ pc' = [pc EXCEPT ![c] = "idle"]
    /\ call' = [call EXCEPT ![c] = NoCall]
    /\ UNCHANGED << cfg, now, data, dataLock, started, stopCh, trimVars,
                    snapshotCache, ghostVars >>

\* defer cache.dataLock.Unlock(), and Store returns
StoreUnlock(c) ==
    /\ pc[c] = "Store_Unlock"
    /\ dataLock' = Unlock(c)
    /\ pc' = [pc EXCEPT ![c] = "idle"]
    /\ call' = [call EXCEPT ![c] = NoCall]
    /\ UNCHANGED << cfg, now, data, started, stopCh, trimVars, snapshotCache,
                    ghostVars >>

\* ------------------------------------------------------------------ Fetch
\* A caller invokes Fetch(ctx, object, oldResourceVersion, newResourceVersion).
FetchCall(c) ==
    /\ started
    /\ pc[c] = "idle"
    /\ pc' = [pc EXCEPT ![c] = "Fetch_RLock"]
    /\ UNCHANGED << cfg, now, data, dataLock, call, started, stopCh, trimVars,
                    snapshotCache, ghostVars >>

\* Faulty variant: the resolver's error is dropped, as Store drops it.
FetchResult_IgnoreErr(o, oldRv, newRv) ==
    LET r == ChooseResourceVersion(oldRv, newRv)
    IN  IF o \in DOMAIN data /\ r.key \in DOMAIN data[o].patches
        THEN [patch |-> data[o].patches[r.key], err |-> FALSE]
        ELSE [patch |-> NoPatch, err |-> FALSE]

\* Faulty variant: a cache miss is reported as an error.
FetchResult_MissIsError(o, oldRv, newRv) ==
    LET r == ChooseResourceVersion(oldRv, newRv)
    IN  IF r.err
        THEN [patch |-> NoPatch, err |-> TRUE]
        ELSE IF o \in DOMAIN data /\ r.key \in DOMAIN data[o].patches
             THEN [patch |-> data[o].patches[r.key], err |-> FALSE]
             ELSE [patch |-> NoPatch, err |-> TRUE]

\* The value Fetch returns: lines 139-161.
FetchResult(o, oldRv, newRv) ==
    LET r == ChooseResourceVersion(oldRv, newRv)
    IN  IF r.err
        THEN [patch |-> NoPatch, err |-> TRUE]
        ELSE IF o \in DOMAIN data /\ r.key \in DOMAIN data[o].patches
             THEN [patch |-> data[o].patches[r.key], err |-> FALSE]
             ELSE [patch |-> NoPatch, err |-> FALSE]

\* Faulty variant: Fetch reads the map without waiting for the writer.
FetchRLock_NoWait(c) ==
    /\ pc[c] = "Fetch_RLock"
    /\ dataLock' = RLock(c)
    /\ \E o \in Objects, oldRv \in OldRvs, newRv \in NewRvs :
          call' = [call EXCEPT ![c] =
                      [op |-> "Fetch", obj |-> o, old |-> oldRv, new |-> newRv,
                       ret |-> FetchResult(o, oldRv, newRv)]]
    /\ pc' = [pc EXCEPT ![c] = "Fetch_Return"]
    /\ UNCHANGED << cfg, now, data, started, stopCh, trimVars, snapshotCache,
                    ghostVars >>

\* cache.dataLock.RLock() and the body of Fetch up to its return statement;
\* the shared lock is held until the deferred RUnlock.
FetchRLock(c) ==
    /\ pc[c] = "Fetch_RLock"
    /\ CanRLock
    /\ dataLock' = RLock(c)
    /\ \E o \in Objects, oldRv \in OldRvs, newRv \in NewRvs :
          call' = [call EXCEPT ![c] =
                      [op |-> "Fetch", obj |-> o, old |-> oldRv, new |-> newRv,
                       ret |-> FetchResult(o, oldRv, newRv)]]
    /\ pc' = [pc EXCEPT ![c] = "Fetch_Return"]
    /\ UNCHANGED << cfg, now, data, started, stopCh, trimVars, snapshotCache,
                    ghostVars >>

\* defer cache.dataLock.RUnlock(), and Fetch returns
FetchReturn(c) ==
    /\ pc[c] = "Fetch_Return"
    /\ dataLock' = RUnlock(c)
    /\ pc' = [pc EXCEPT ![c] = "idle"]
    /\ call' = [call EXCEPT ![c] = NoCall]
    /\ UNCHANGED << cfg, now, data, started, stopCh, trimVars, snapshotCache,
                    ghostVars >>

\* ------------------------------------------------------------------- List
\* A caller invokes List(ctx, object, limit).
ListCall(c) ==
    /\ started
    /\ pc[c] = "idle"
    /\ pc' = [pc EXCEPT ![c] = "List_RLock"]
    /\ UNCHANGED << cfg, now, data, dataLock, call, started, stopCh, trimVars,
                    snapshotCache, ghostVars >>

\* Faulty variant: no more than limit keys are returned.
ListResult_Truncate(o, limit) ==
    IF o \notin DOMAIN data
    THEN [keys |-> {}, err |-> FALSE]
    ELSE LET all == DOMAIN data[o].patches
         IN  IF Cardinality(all) <= limit
             THEN [keys |-> all, err |-> FALSE]
             ELSE [keys |-> CHOOSE ks \in SUBSET all :
                               Cardinality(ks) = IF limit > 0 THEN limit ELSE 0,
                   err |-> FALSE]

\* The value List returns: lines 184-194. The keys slice is in map iteration
\* order, which Go leaves unspecified; it is modelled as the set of its
\* elements.
ListResult(o, limit) ==
    IF o \notin DOMAIN data
    THEN [keys |-> {}, err |-> FALSE]
    ELSE [keys |-> DOMAIN data[o].patches, err |-> FALSE]

\* cache.dataLock.RLock() and the body of List up to its return statement;
\* the shared lock is held until the deferred RUnlock.
ListRLockOf(c, limits) ==
    /\ pc[c] = "List_RLock"
    /\ CanRLock
    /\ dataLock' = RLock(c)
    /\ \E o \in Objects, l \in limits :
          call' = [call EXCEPT ![c] =
                      [op |-> "List", obj |-> o, limit |-> l,
                       ret |-> ListResult(o, l)]]
    /\ pc' = [pc EXCEPT ![c] = "List_Return"]
    /\ UNCHANGED << cfg, now, data, started, stopCh, trimVars, snapshotCache,
                    ghostVars >>

ListRLock(c) == ListRLockOf(c, Limits)

\* defer cache.dataLock.RUnlock(), and List returns
ListReturn(c) ==
    /\ pc[c] = "List_Return"
    /\ dataLock' = RUnlock(c)
    /\ pc' = [pc EXCEPT ![c] = "idle"]
    /\ call' = [call EXCEPT ![c] = NoCall]
    /\ UNCHANGED << cfg, now, data, started, stopCh, trimVars, snapshotCache,
                    ghostVars >>

\* ------------------------------------------------------- Start and shutdown
\* Faulty variant: the trim loop is launched whatever the expiry.
Start_Always ==
    /\ ~started
    /\ started' = TRUE
    /\ trimPc' = "for"
    /\ UNCHANGED << cfg, now, data, dataLock, pc, call, stopCh, trimDeadline,
                    trimScanned, removals, scanAge, snapshotCache, ghostVars >>

\* Start(stopCh): launches runTrimLoop only when the patch expiry is positive.
Start ==
    /\ ~started
    /\ started' = TRUE
    /\ trimPc' = IF cfg.PatchTtl > 0 THEN "for" ELSE trimPc
    /\ UNCHANGED << cfg, now, data, dataLock, pc, call, stopCh, trimDeadline,
                    trimScanned, removals, scanAge, snapshotCache, ghostVars >>

\* The external shutdown signal: stopCh is closed.
Shutdown ==
    /\ ~stopCh
    /\ stopCh' = TRUE
    /\ UNCHANGED << cfg, now, data, dataLock, pc, call, started, trimVars,
                    snapshotCache, ghostVars >>

\* -------------------------------------------------------------- runTrimLoop
\* The select statement is entered: time.After(interval) arms a timer.
TrimFor ==
    /\ trimPc = "for"
    /\ trimDeadline' = now + Interval
    /\ trimPc' = "select"
    /\ UNCHANGED << cfg, now, data, dataLock, pc, call, started, stopCh,
                    trimScanned, removals, scanAge, snapshotCache, ghostVars >>

\* Faulty variant: the stop case leaves the select statement only, and the
\* for loop goes on.
TrimStop_Break ==
    /\ trimPc = "select"
    /\ stopCh
    /\ trimPc' = "for"
    /\ trimDeadline' = 0
    /\ UNCHANGED << cfg, now, data, dataLock, pc, call, started, stopCh,
                    trimScanned, removals, scanAge, snapshotCache, ghostVars >>

\* case <-stopCh: return
TrimStop ==
    /\ trimPc = "select"
    /\ stopCh
    /\ trimPc' = "returned"
    /\ trimDeadline' = 0
    /\ UNCHANGED << cfg, now, data, dataLock, pc, call, started, stopCh,
                    trimScanned, removals, scanAge, snapshotCache, ghostVars >>

\* case <-time.After(interval): cache.doTrim(expiry)
TrimTimer ==
    /\ trimPc = "select"
    /\ now >= trimDeadline
    /\ trimPc' = "doTrim_Lock"
    /\ trimDeadline' = 0
    /\ UNCHANGED << cfg, now, data, dataLock, pc, call, started, stopCh,
                    trimScanned, removals, scanAge, snapshotCache, ghostVars >>

\* Faulty variant: the pass scans and deletes without taking the lock.
TrimLock_NoLock ==
    /\ trimPc = "doTrim_Lock"
    /\ trimPc' = "doTrim_Scan"
    /\ UNCHANGED << cfg, now, data, dataLock, pc, call, started, stopCh,
                    trimDeadline, trimScanned, removals, scanAge, snapshotCache,
                    ghostVars >>

\* cache.dataLock.Lock(); removals := []string{}
TrimLock ==
    /\ trimPc = "doTrim_Lock"
    /\ CanLock(TrimProc)
    /\ dataLock' = Lock(TrimProc)
    /\ trimPc' = IF LockReturns THEN "doTrim_Scan" ELSE trimPc
    /\ UNCHANGED << cfg, now, data, pc, call, started, stopCh, trimDeadline,
                    trimScanned, removals, scanAge, snapshotCache, ghostVars >>

\* Faulty variant: a History whose age equals the expiry is evicted too.
Expired_AtExpiry(h, expiry) == now - h.lastModify >= expiry

\* if time.Since(v.lastModify) > expiry
Expired(h, expiry) == now - h.lastModify > expiry

\* One iteration of: for k, v := range cache.data { ... }
TrimScan ==
    /\ trimPc = "doTrim_Scan"
    /\ \E k \in (DOMAIN data) \ trimScanned :
          /\ trimScanned' = trimScanned \cup {k}
          /\ removals' = IF Expired(data[k], cfg.PatchTtl)
                         THEN Append(removals, k)
                         ELSE removals
          /\ scanAge' = MapPut(scanAge, k, now - data[k].lastModify)
    /\ UNCHANGED << cfg, now, data, dataLock, pc, call, started, stopCh, trimPc,
                    trimDeadline, snapshotCache, ghostVars >>

\* The range loop has visited every key.
TrimScanDone ==
    /\ trimPc = "doTrim_Scan"
    /\ (DOMAIN data) \subseteq trimScanned
    /\ trimPc' = "doTrim_Delete"
    /\ UNCHANGED << cfg, now, data, dataLock, pc, call, started, stopCh,
                    trimDeadline, trimScanned, removals, scanAge, snapshotCache,
                    ghostVars >>

\* Faulty variant: evicting a History also drops the snapshots of its object.
TrimDelete_Snapshots ==
    /\ trimPc = "doTrim_Delete"
    /\ removals # << >>
    /\ LET k == Head(removals)
       IN  /\ data' = MapDelete(data, k)
           /\ lastStore' = MapDelete(lastStore, k)
           /\ overwrote' = {e \in overwrote : e[1] # k}
           /\ storedAt' = MapDelete(storedAt, k)
           /\ snapshotCache' =
                 [key \in {x \in DOMAIN snapshotCache :
                              \A n \in SnapshotNames : x # k \o "/" \o n}
                     |-> snapshotCache[key]]
    /\ removals' = Tail(removals)
    /\ UNCHANGED << cfg, now, dataLock, pc, call, started, stopCh, trimPc,
                    trimDeadline, trimScanned, scanAge >>

\* One iteration of: for _, k := range removals { delete(cache.data, k) }
TrimDelete ==
    /\ trimPc = "doTrim_Delete"
    /\ removals # << >>
    /\ LET k == Head(removals)
       IN  /\ data' = MapDelete(data, k)
           /\ lastStore' = MapDelete(lastStore, k)
           /\ overwrote' = {e \in overwrote : e[1] # k}
           /\ storedAt' = MapDelete(storedAt, k)
    /\ removals' = Tail(removals)
    /\ UNCHANGED << cfg, now, dataLock, pc, call, started, stopCh, trimPc,
                    trimDeadline, trimScanned, scanAge, snapshotCache >>

\* defer cache.dataLock.Unlock(); doTrim returns to the for loop
TrimUnlock ==
    /\ trimPc = "doTrim_Delete"
    /\ removals = << >>
    /\ dataLock' = Unlock(TrimProc)
    /\ trimPc' = "for"
    /\ trimScanned' = {}
    /\ scanAge' = EmptyMap
    /\ UNCHANGED << cfg, now, data, pc, call, started, stopCh, trimDeadline,
                    removals, snapshotCache, ghostVars >>

\* The pass panics while it ranges over cache.data (the dereference of v at
\* line 99 is the only statement of doTrim that can raise a runtime panic).
\* The deferred Unlock of doTrim runs, the panic unwinds out of the for loop
\* of runTrimLoop, the deferred shutdown.RecoverPanic recovers it, and
\* runTrimLoop returns.
TrimPanic ==
    /\ trimPc = "doTrim_Scan"
    /\ dataLock' = Unlock(TrimProc)
    /\ trimPc' = "returned"
    /\ trimScanned' = {}
    /\ removals' = << >>
    /\ scanAge' = EmptyMap
    /\ UNCHANGED << cfg, now, data, pc, call, started, stopCh, trimDeadline,
                    snapshotCache, ghostVars >>

\* ---------------------------------------------------------- snapshot cache
\* fmt.Sprintf("%v/%s", object, snapshotName)
SnapshotKey(o, n) == o \o "/" \o n

\* TtlOnce.Add(key, value)
TtlOnceAdd(key, value) ==
    MapPut(snapshotCache, key, [value |-> value, expiry |-> now + SnapshotTtl])

\* TtlOnce.Get(key)
TtlOnceGet(key) ==
    IF key \in DOMAIN snapshotCache /\ now < snapshotCache[key].expiry
    THEN [value |-> snapshotCache[key].value, ok |-> TRUE]
    ELSE [value |-> NoSnapshot, ok |-> FALSE]

\* StoreSnapshot(ctx, object, snapshotName, value); the caller is back in its
\* own code at StoreSnapshotReturn.
StoreSnapshotOf(c, objs, names, values) ==
    /\ started
    /\ pc[c] = "idle"
    /\ \E o \in objs, n \in names, v \in values :
          /\ snapshotCache' = TtlOnceAdd(SnapshotKey(o, n), v)
          /\ call' = [call EXCEPT ![c] =
                         [op |-> "StoreSnapshot", obj |-> o, name |-> n,
                          value |-> v]]
    /\ pc' = [pc EXCEPT ![c] = "StoreSnapshot_Return"]
    /\ UNCHANGED << cfg, now, data, dataLock, started, stopCh, trimVars,
                    ghostVars >>

StoreSnapshot(c) == StoreSnapshotOf(c, SnapshotObjects, SnapshotNames, Snapshots)

StoreSnapshotReturn(c) ==
    /\ pc[c] = "StoreSnapshot_Return"
    /\ pc' = [pc EXCEPT ![c] = "idle"]
    /\ call' = [call EXCEPT ![c] = NoCall]
    /\ UNCHANGED << cfg, now, data, dataLock, started, stopCh, trimVars,
                    snapshotCache, ghostVars >>

\* The value FetchSnapshot returns: lines 173-177.
FetchSnapshotResult(o, n) ==
    LET g == TtlOnceGet(SnapshotKey(o, n))
    IN  IF g.ok
        THEN [snapshot |-> g.value, err |-> FALSE]
        ELSE [snapshot |-> NoSnapshot, err |-> FALSE]

\* FetchSnapshot(ctx, object, snapshotName); the caller holds the returned
\* value until FetchSnapshotReturn.
FetchSnapshotOf(c, objs, names) ==
    /\ started
    /\ pc[c] = "idle"
    /\ \E o \in objs, n \in names :
          call' = [call EXCEPT ![c] =
                      [op |-> "FetchSnapshot", obj |-> o, name |-> n,
                       ret |-> FetchSnapshotResult(o, n)]]
    /\ pc' = [pc EXCEPT ![c] = "FetchSnapshot_Return"]
    /\ UNCHANGED << cfg, now, data, dataLock, started, stopCh, trimVars,
                    snapshotCache, ghostVars >>

FetchSnapshot(c) == FetchSnapshotOf(c, SnapshotObjects, SnapshotNames)

FetchSnapshotReturn(c) ==
    /\ pc[c] = "FetchSnapshot_Return"
    /\ pc' = [pc EXCEPT ![c] = "idle"]
    /\ call' = [call EXCEPT ![c] = NoCall]
    /\ UNCHANGED << cfg, now, data, dataLock, started, stopCh, trimVars,
                    snapshotCache, ghostVars >>

\* One pass of TtlOnce.RunCleanupLoop: expired entries are purged.
SnapshotCleanup ==
    /\ started
    /\ ~stopCh
    /\ \E key \in DOMAIN snapshotCache : now >= snapshotCache[key].expiry
    /\ snapshotCache' = [key \in {x \in DOMAIN snapshotCache :
                                     now < snapshotCache[x].expiry}
                            |-> snapshotCache[key]]
    /\ UNCHANGED << cfg, now, data, dataLock, pc, call, started, stopCh,
                    trimVars, ghostVars >>

\* ----------------------------------------- compute-once retrieval of TtlOnce
\* The callers that are computing the value of a key.
Computing(key) ==
    {d \in Callers : pc[d] = "Load_Compute" /\ call[d].key = key}

\* Faulty variant: a request for a missing key computes although another
\* caller is computing the value of that key.
TtlOnceLoad_NoWait(c, objs, names) ==
    /\ started
    /\ pc[c] = "idle"
    /\ \E o \in objs, n \in names :
          LET key == SnapshotKey(o, n)
              g == TtlOnceGet(key)
          IN  IF g.ok
              THEN /\ call' = [call EXCEPT ![c] =
                                 [op |-> "Load", key |-> key, ret |-> g.value]]
                   /\ pc' = [pc EXCEPT ![c] = "Load_Return"]
              ELSE /\ call' = [call EXCEPT ![c] =
                                 [op |-> "Load", key |-> key, ret |-> NoSnapshot]]
                   /\ pc' = [pc EXCEPT ![c] = "Load_Compute"]
    /\ UNCHANGED << cfg, now, data, dataLock, started, stopCh, trimVars,
                    snapshotCache, ghostVars >>

\* A caller requests the snapshot of a key from the keyed cache: a cached
\* value is returned, a request for a key that is being computed waits for
\* that computation, and a request for a missing key computes.
TtlOnceLoad(c, objs, names) ==
    /\ started
    /\ pc[c] = "idle"
    /\ \E o \in objs, n \in names :
          LET key == SnapshotKey(o, n)
              g == TtlOnceGet(key)
          IN  IF g.ok
              THEN /\ call' = [call EXCEPT ![c] =
                                 [op |-> "Load", key |-> key, ret |-> g.value]]
                   /\ pc' = [pc EXCEPT ![c] = "Load_Return"]
              ELSE /\ call' = [call EXCEPT ![c] =
                                 [op |-> "Load", key |-> key, ret |-> NoSnapshot]]
                   /\ pc' = [pc EXCEPT ![c] =
                               IF Computing(key) = {}
                               THEN "Load_Compute" ELSE "Load_Wait"]
    /\ UNCHANGED << cfg, now, data, dataLock, started, stopCh, trimVars,
                    snapshotCache, ghostVars >>

\* The computation of a caller ends: its value is stored under the key and
\* handed to the caller and to every caller waiting for the key.
TtlOnceComputed(c, values) ==
    /\ pc[c] = "Load_Compute"
    /\ \E v \in values :
          LET key == call[c].key
              served == {c} \cup {w \in Callers :
                                    pc[w] = "Load_Wait" /\ call[w].key = key}
          IN  /\ snapshotCache' = TtlOnceAdd(key, v)
              /\ call' = [d \in Callers |->
                            IF d \in served
                            THEN [call[d] EXCEPT !.ret = v] ELSE call[d]]
              /\ pc' = [d \in Callers |->
                          IF d \in served THEN "Load_Return" ELSE pc[d]]
    /\ UNCHANGED << cfg, now, data, dataLock, started, stopCh, trimVars,
                    ghostVars >>

\* The request returns to its caller.
TtlOnceLoadReturn(c) ==
    /\ pc[c] = "Load_Return"
    /\ pc' = [pc EXCEPT ![c] = "idle"]
    /\ call' = [call EXCEPT ![c] = NoCall]
    /\ UNCHANGED << cfg, now, data, dataLock, started, stopCh, trimVars,
                    snapshotCache, ghostVars >>

\* ------------------------------------------------------------ specifications
Next ==
    \/ Tick
    \/ \E c \in Callers : StoreCall(c)
    \/ \E c \in Callers : StoreLock(c)
    \/ \E c \in Callers : StoreCreate(c)
    \/ \E c \in Callers : StoreTouch(c)
    \/ \E c \in Callers : StoreInsert(c)
    \/ \E c \in Callers : StoreUnlock(c)
    \/ \E c \in Callers : FetchCall(c)
    \/ \E c \in Callers : FetchRLock(c)
    \/ \E c \in Callers : FetchReturn(c)
    \/ \E c \in Callers : ListCall(c)
    \/ \E c \in Callers : ListRLock(c)
    \/ \E c \in Callers : ListReturn(c)
    \/ Start
    \/ Shutdown
    \/ TrimFor
    \/ TrimStop
    \/ TrimTimer
    \/ TrimLock
    \/ TrimScan
    \/ TrimScanDone
    \/ TrimDelete
    \/ TrimUnlock

\* The patch history store with its trim loop.
Spec == Init /\ [][Next]_vars

\* The same, with a trim pass that may fail.
NextFault ==
    \/ Next
    \/ TrimPanic

InitFault == InitWith([PatchTtl : {1}, UseOldResourceVersion : BOOLEAN])

SpecFault == InitFault /\ [][NextFault]_vars

\* The patch history store together with the snapshot cache, up to the
\* shutdown signal.
NextAll ==
    \/ Tick
    \/ \E c \in Callers : StoreCall(c)
    \/ \E c \in Callers : StoreLock(c)
    \/ \E c \in Callers : StoreCreate(c)
    \/ \E c \in Callers : StoreTouch(c)
    \/ \E c \in Callers : StoreInsert(c)
    \/ \E c \in Callers : StoreUnlock(c)
    \/ \E c \in Callers : FetchCall(c)
    \/ \E c \in Callers : FetchRLock(c)
    \/ \E c \in Callers : FetchReturn(c)
    \/ \E c \in Callers : ListCall(c)
    \/ \E c \in Callers : ListRLock(c)
    \/ \E c \in Callers : ListReturn(c)
    \/ Start
    \/ TrimFor
    \/ TrimTimer
    \/ TrimLock
    \/ TrimScan
    \/ TrimScanDone
    \/ TrimDelete
    \/ TrimUnlock
    \/ \E c \in Callers : StoreSnapshot(c)
    \/ \E c \in Callers : StoreSnapshotReturn(c)
    \/ \E c \in Callers : FetchSnapshot(c)
    \/ \E c \in Callers : FetchSnapshotReturn(c)
    \/ SnapshotCleanup

InitAll == InitWith([PatchTtl : {1}, UseOldResourceVersion : {FALSE}])

SpecAll == InitAll /\ [][NextAll]_vars

\* The snapshot cache alone, over object strings and snapshot names of which
\* some contain the separator of the composite key.
KeyObjects == {"a", "a/b"}
KeyNames == {"n", "b/n"}
KeySnapshots == {"s1", "s2"}

StoreSnapshotKeys(c) == StoreSnapshotOf(c, KeyObjects, KeyNames, KeySnapshots)

FetchSnapshotKeys(c) == FetchSnapshotOf(c, KeyObjects, KeyNames)

NextSnap ==
    \/ Tick
    \/ Start
    \/ Shutdown
    \/ \E c \in Callers : StoreSnapshotKeys(c)
    \/ \E c \in Callers : StoreSnapshotReturn(c)
    \/ \E c \in Callers : FetchSnapshotKeys(c)
    \/ \E c \in Callers : FetchSnapshotReturn(c)
    \/ SnapshotCleanup

\* The snapshot cache with the compute-once retrieval of the keyed cache.
NextOnce ==
    \/ NextSnap
    \/ \E c \in Callers : TtlOnceLoad(c, KeyObjects, KeyNames)
    \/ \E c \in Callers : TtlOnceComputed(c, KeySnapshots)
    \/ \E c \in Callers : TtlOnceLoadReturn(c)

InitSnap == InitWith([PatchTtl : {0}, UseOldResourceVersion : {FALSE}])

SpecSnap == InitSnap /\ [][NextSnap]_vars

SpecOnce == InitSnap /\ [][NextOnce]_vars

\* The patch history store with an expiry of one interval and the new
\* resource version as key, so that a History can hold several patches.
InitStore == InitWith([PatchTtl : {1}, UseOldResourceVersion : {FALSE}])

SpecStore == InitStore /\ [][Next]_vars

\* Store, List and the trim loop of the same store, with limits of every
\* sign.
AnyLimits == {-1, 0, 1}

ListRLockAny(c) == ListRLockOf(c, AnyLimits)

NextList ==
    \/ Tick
    \/ \E c \in Callers : StoreCall(c)
    \/ \E c \in Callers : StoreLock(c)
    \/ \E c \in Callers : StoreCreate(c)
    \/ \E c \in Callers : StoreTouch(c)
    \/ \E c \in Callers : StoreInsert(c)
    \/ \E c \in Callers : StoreUnlock(c)
    \/ \E c \in Callers : ListCall(c)
    \/ \E c \in Callers : ListRLockAny(c)
    \/ \E c \in Callers : ListReturn(c)
    \/ Start
    \/ Shutdown
    \/ TrimFor
    \/ TrimStop
    \/ TrimTimer
    \/ TrimLock
    \/ TrimScan
    \/ TrimScanDone
    \/ TrimDelete
    \/ TrimUnlock

SpecList == InitStore /\ [][NextList]_vars

\* Store, Fetch and the trim loop of the same store, with the time of every
\* Store recorded in storedAt.
NextAged ==
    \/ Tick
    \/ \E c \in Callers : StoreCall(c)
    \/ \E c \in Callers : StoreLock(c)
    \/ \E c \in Callers : StoreCreate(c)
    \/ \E c \in Callers : StoreTouchStamped(c)
    \/ \E c \in Callers : StoreInsert(c)
    \/ \E c \in Callers : StoreUnlock(c)
    \/ \E c \in Callers : FetchCall(c)
    \/ \E c \in Callers : FetchRLock(c)
    \/ \E c \in Callers : FetchReturn(c)
    \/ Start
    \/ Shutdown
    \/ TrimFor
    \/ TrimStop
    \/ TrimTimer
    \/ TrimLock
    \/ TrimScan
    \/ TrimScanDone
    \/ TrimDelete
    \/ TrimUnlock

SpecAged == InitStore /\ [][NextAged]_vars

\* The patch history store under fair scheduling. Every goroutine that can
\* take a step eventually takes it; sync.Mutex hands the lock to a goroutine
\* that keeps waiting for it (strong fairness of TrimLock), and a select
\* statement with a ready stop case eventually chooses it (strong fairness of
\* TrimStop). Callers are not obliged to call, and the clock is not obliged
\* to advance.
Fairness ==
    /\ WF_vars(TrimFor)
    /\ SF_vars(TrimStop)
    /\ SF_vars(TrimLock)
    /\ WF_vars(TrimScan)
    /\ WF_vars(TrimScanDone)
    /\ WF_vars(TrimDelete)
    /\ WF_vars(TrimUnlock)
    /\ \A c \in Callers :
          /\ WF_vars(StoreLock(c))
          /\ WF_vars(StoreCreate(c))
          /\ WF_vars(StoreTouch(c))
          /\ WF_vars(StoreInsert(c))
          /\ WF_vars(StoreUnlock(c))
          /\ WF_vars(FetchReturn(c))
          /\ WF_vars(ListReturn(c))

InitFair == InitWith([PatchTtl : {1}, UseOldResourceVersion : {FALSE}])

SpecFair == InitFair /\ [][Next]_vars /\ Fairness

\* A caller inside Lock() or RLock(); a caller waits in one of them at a time.
Acquire(c) == StoreLock(c) \/ FetchRLock(c) \/ ListRLock(c)

\* The scheduling of the lock. A goroutine that holds the lock runs on to its
\* deferred release, and sync.RWMutex lets no waiter starve: a goroutine that
\* keeps waiting in Lock() or RLock() while the lock is free again and again
\* gets it (strong fairness of the acquisitions).
LockFairness ==
    /\ SF_vars(TrimLock)
    /\ WF_vars(TrimScan)
    /\ WF_vars(TrimScanDone)
    /\ WF_vars(TrimDelete)
    /\ WF_vars(TrimUnlock)
    /\ \A c \in Callers :
          /\ SF_vars(Acquire(c))
          /\ WF_vars(StoreCreate(c))
          /\ WF_vars(StoreTouch(c))
          /\ WF_vars(StoreInsert(c))
          /\ WF_vars(StoreUnlock(c))
          /\ WF_vars(FetchReturn(c))
          /\ WF_vars(ListReturn(c))

\* The operations that take the lock, on a store that is not shut down.
NextLock ==
    \/ Tick
    \/ \E c \in Callers : StoreCall(c)
    \/ \E c \in Callers : StoreLock(c)
    \/ \E c \in Callers : StoreCreate(c)
    \/ \E c \in Callers : StoreTouch(c)
    \/ \E c \in Callers : StoreInsert(c)
    \/ \E c \in Callers : StoreUnlock(c)
    \/ \E c \in Callers : FetchCall(c)
    \/ \E c \in Callers : FetchRLock(c)
    \/ \E c \in Callers : FetchReturn(c)
    \/ \E c \in Callers : ListCall(c)
    \/ \E c \in Callers : ListRLock(c)
    \/ \E c \in Callers : ListReturn(c)
    \/ Start
    \/ TrimFor
    \/ TrimTimer
    \/ TrimLock
    \/ TrimScan
    \/ TrimScanDone
    \/ TrimDelete
    \/ TrimUnlock

SpecLock == InitStore /\ [][NextLock]_vars /\ LockFairness

\* ------------------------------------------------------------------ claims
\* The canonical key of a patch, as Store resolves it.
PatchKey(p) == ChooseResourceVersion(p.old, p.new).key

\* The patch the history variable records for object o under key k.
Recorded(o, k) ==
    IF o \in DOMAIN lastStore /\ k \in DOMAIN lastStore[o]
    THEN lastStore[o][k]
    ELSE NoPatch

Fetching(c) == pc[c] = "Fetch_Return"
Listing(c) == pc[c] = "List_Return"

\* C1: round trip. A Fetch of (O, P.old, present(P.new)) returns exactly P and
\* no error whenever P is the patch of the last Store to O under P's key and
\* no trim pass has evicted O's History since that Store.
C1_RoundTrip ==
    \A c \in Callers : Fetching(c) =>
        \A p \in Patches :
            ( /\ call[c].old = p.old
              /\ call[c].new = p.new
              /\ Recorded(call[c].obj, PatchKey(p)) = p )
            => call[c].ret = [patch |-> p, err |-> FALSE]

\* A Fetch with a patch's own versions is returning that patch.
C1_Witness ==
    \E c \in Callers : \E p \in Patches :
        /\ Fetching(c)
        /\ call[c].old = p.old
        /\ call[c].new = p.new
        /\ Recorded(call[c].obj, PatchKey(p)) = p
        /\ call[c].ret.patch = p

\* C2: overwrite, last writer wins. Every patch of a History sits under its
\* own canonical key (so a History holds one patch per canonical key), and a
\* Fetch that resolves to key K returns the patch of the Store that acquired
\* the exclusive lock last for (O, K); a patch that Store replaced is not
\* returned any more.
C2_LastWriterWins ==
    /\ \A c \in Callers :
          (Fetching(c) /\ ~ChooseResourceVersion(call[c].old, call[c].new).err)
          => call[c].ret.patch =
                Recorded(call[c].obj,
                         ChooseResourceVersion(call[c].old, call[c].new).key)
    /\ (dataLock.writer = {}) =>
          \A o \in DOMAIN data : \A k \in DOMAIN data[o].patches :
              PatchKey(data[o].patches[k]) = k

\* A Fetch is returning a patch that replaced a different patch under its key.
C2_Witness ==
    \E c \in Callers :
        /\ Fetching(c)
        /\ call[c].ret.patch \in Patches
        /\ <<call[c].obj, PatchKey(call[c].ret.patch)>> \in overwrote

TrimPassScanned == trimPc = "doTrim_Delete" /\ removals = << >>

\* C3: trim expiry. When a trim pass has finished its deletions, a History is
\* gone exactly if the time since its lastModify, as the pass scanned it,
\* strictly exceeded the expiry; a kept History still has its patches, and a
\* Fetch for an object without History returns an absent patch.
C3_TrimExpiry ==
    /\ TrimPassScanned =>
          \A o \in DOMAIN scanAge :
              /\ (scanAge[o] > cfg.PatchTtl) <=> (o \notin DOMAIN data)
              /\ (scanAge[o] > cfg.PatchTtl) <=> (o \notin DOMAIN lastStore)
              /\ (o \in DOMAIN data) => (data[o].patches = lastStore[o])
    /\ \A c \in Callers :
          (Fetching(c) /\ call[c].obj \notin DOMAIN lastStore)
          => call[c].ret.patch = NoPatch

\* A pass has evicted one History and kept another whose age equals the expiry.
C3_Witness ==
    /\ TrimPassScanned
    /\ \E o1, o2 \in DOMAIN scanAge :
          /\ scanAge[o1] > cfg.PatchTtl
          /\ o1 \notin DOMAIN data
          /\ scanAge[o2] = cfg.PatchTtl
          /\ o2 \in DOMAIN data

\* C4: fault containment in the trim loop. A panic in one pass does not end
\* the loop: runTrimLoop returns only when the shutdown signal was observed.
C4_LoopSurvivesPanic == (trimPc = "returned") => stopCh

Rejected(c) == ChooseResourceVersion(call[c].old, call[c].new).err

\* C5: a Fetch whose version pair the resolver rejects returns an error and
\* no patch, for known and unknown objects; no step of a Fetch changes the
\* store, and the shared lock is released when Fetch returns.
C5_FetchRejected ==
    /\ [](\A c \in Callers :
            /\ (Fetching(c) /\ Rejected(c))
               => call[c].ret = [patch |-> NoPatch, err |-> TRUE]
            /\ (pc[c] = "idle") => (c \notin dataLock.readers))
    /\ [][\A c \in Callers :
            (pc[c] \in {"Fetch_RLock", "Fetch_Return"} /\ pc'[c] # pc[c])
            => /\ data' = data
               /\ (pc'[c] = "idle") => (c \notin dataLock'.readers)]_vars

\* Two Fetches with a rejected pair are returning, one for an object that has
\* a History and one for an object that has none.
C5_Witness ==
    \E c1, c2 \in Callers :
        /\ Fetching(c1) /\ Rejected(c1) /\ call[c1].ret.err
        /\ Fetching(c2) /\ Rejected(c2) /\ call[c2].ret.err
        /\ call[c1].obj \in DOMAIN data
        /\ call[c2].obj \notin DOMAIN data

\* C6: a cache miss is not an error. For an object without History (never
\* stored, or evicted) a Fetch with a resolvable pair returns an absent patch
\* and no error and a List returns an empty collection and no error; a Fetch
\* for an object whose History lacks the resolved key returns an absent patch
\* and no error.
C6_MissIsNotAnError ==
    \A c \in Callers :
        /\ (Fetching(c) /\ ~Rejected(c)
              /\ Recorded(call[c].obj,
                          ChooseResourceVersion(call[c].old, call[c].new).key)
                    = NoPatch)
           => call[c].ret = [patch |-> NoPatch, err |-> FALSE]
        /\ (Listing(c) /\ call[c].obj \notin DOMAIN lastStore)
           => call[c].ret = [keys |-> {}, err |-> FALSE]
        /\ Listing(c) => ~call[c].ret.err

\* A Fetch misses a key of an object that has a History while a List of an
\* object without History returns.
C6_Witness ==
    \E c1, c2 \in Callers :
        /\ Fetching(c1) /\ ~Rejected(c1)
        /\ call[c1].obj \in DOMAIN data
        /\ call[c1].ret = [patch |-> NoPatch, err |-> FALSE]
        /\ Listing(c2)
        /\ call[c2].obj \notin DOMAIN data
        /\ call[c2].ret.keys = {}
\* The History of object o in map d, as a sequence of at most one element.
HistoryOf(d, o) == IF o \in DOMAIN d THEN << d[o] >> ELSE << >>

\* C7: frame of the patch history store. The History of an object (its
\* existence, its patches, its lastModify) changes only in a step of a Store
\* addressed to that object or in a deletion of a trim pass; every step of
\* Fetch, List, StoreSnapshot, FetchSnapshot and of a Store to another object
\* leaves it unchanged, so Fetch and List never create a History.
C7_Frame ==
    [][\A o \in Objects :
          (HistoryOf(data', o) # HistoryOf(data, o))
          => \/ \E c \in Callers :
                   /\ pc[c] \in {"Store_Create", "Store_Touch", "Store_Insert"}
                   /\ pc'[c] # pc[c]
                   /\ call[c].obj = o
             \/ /\ trimPc = "doTrim_Delete"
                /\ removals # << >>
                /\ Head(removals) = o
                /\ removals' = Tail(removals)]_vars

\* A Store to one object has written while another object has a History, a
\* snapshot is cached and the other caller is reading.
C7_Witness ==
    \E c1, c2 \in Callers : \E o \in Objects :
        /\ pc[c1] = "Store_Unlock"
        /\ call[c1].obj # o
        /\ o \in DOMAIN data
        /\ snapshotCache # EmptyMap
        /\ pc[c2] = "FetchSnapshot_Return"

StoreWriting(c) ==
    pc[c] \in {"Store_Create", "Store_Touch", "Store_Insert", "Store_Unlock"}

Writing ==
    \/ \E c \in Callers : StoreWriting(c)
    \/ trimPc \in {"doTrim_Scan", "doTrim_Delete"}

Reading == \E c \in Callers : Fetching(c) \/ Listing(c)

\* C8: atomic visibility of writes. While a Fetch or a List holds the lock, no
\* Store and no trim pass is between its first and its last mutation, and
\* the map shows every Store that acquired the lock in full: the History
\* exists, its lastModify is set and its patches are exactly the recorded
\* ones; the keys a List returns are those of whole Stores.
C8_AtomicVisibility ==
    Reading =>
        /\ ~Writing
        /\ DOMAIN data = DOMAIN lastStore
        /\ \A o \in DOMAIN data :
              /\ data[o].lastModify # ZeroTime
              /\ data[o].patches # EmptyMap
              /\ data[o].patches = lastStore[o]
        /\ \A c \in Callers :
              Listing(c) =>
                 call[c].ret.keys =
                    IF call[c].obj \in DOMAIN lastStore
                    THEN DOMAIN lastStore[call[c].obj]
                    ELSE {}

\* A Fetch returns a patch while a Store and the trim pass wait for the lock.
C8_Witness ==
    \E c1, c2 \in Callers :
        /\ Fetching(c1)
        /\ call[c1].ret.patch \in Patches
        /\ pc[c2] = "Store_Lock"
        /\ trimPc = "doTrim_Lock"

Disabled == cfg.PatchTtl <= 0

\* C9: trimming disabled. With an expiry of zero or less, Start never launches
\* the trim loop, no History and no key is ever removed, and a Fetch returns
\* the last patch stored under its key however old the History is.
C9_TrimDisabled ==
    /\ [](Disabled =>
            /\ trimPc = "notStarted"
            /\ \A c \in Callers :
                  (Fetching(c) /\ ~Rejected(c))
                  => call[c].ret.patch =
                        Recorded(call[c].obj,
                                 ChooseResourceVersion(call[c].old,
                                                       call[c].new).key))
    /\ [][Disabled =>
            /\ \A o \in DOMAIN data :
                  /\ o \in DOMAIN data'
                  /\ DOMAIN data[o].patches \subseteq DOMAIN data'[o].patches
            /\ \A o \in DOMAIN lastStore :
                  /\ o \in DOMAIN lastStore'
                  /\ DOMAIN lastStore[o] \subseteq DOMAIN lastStore'[o]]_vars

\* With trimming disabled, a Fetch returns a patch of a History that was last
\* modified when the clock started and is read when the clock ends.
C9_Witness ==
    \E c \in Callers :
        /\ Disabled
        /\ started
        /\ Fetching(c)
        /\ call[c].ret.patch \in Patches
        /\ data[call[c].obj].lastModify = 0
        /\ now = MaxTime
\* C10: shutdown. Once the shutdown signal has fired, a launched trim loop
\* eventually returns, also when the clock stands still so that the pending
\* timer never fires; after it has returned it stays returned and no History
\* is removed.
C10_Shutdown ==
    /\ (stopCh /\ trimPc # "notStarted") ~> (trimPc = "returned")
    /\ [][(trimPc = "returned")
            => /\ trimPc' = "returned"
               /\ DOMAIN data \subseteq DOMAIN data']_vars

\* The loop has returned after the signal, and a History older than the
\* expiry is still in the map.
C10_Witness ==
    /\ stopCh
    /\ trimPc = "returned"
    /\ \E o \in DOMAIN data : now - data[o].lastModify > cfg.PatchTtl

\* A step in which caller c enters StoreSnapshot for the pair (o, n).
StoresSnapshot(c, o, n) ==
    /\ pc[c] = "idle"
    /\ pc'[c] = "StoreSnapshot_Return"
    /\ call'[c].obj = o
    /\ call'[c].name = n

\* C11: snapshot round trip. FetchSnapshot never returns an error. Right after
\* StoreSnapshot(O, n, S) a FetchSnapshot(O, n) returns S; as long as no other
\* StoreSnapshot(O, n, ..) follows it keeps returning S while the entry is within
\* the snapshot TTL and returns an absent snapshot otherwise, so a pair that
\* was never stored is absent.
C11_SnapshotRoundTrip ==
    /\ [](\A c \in Callers :
            pc[c] = "FetchSnapshot_Return" => ~call[c].ret.err)
    /\ [][\A o \in KeyObjects, n \in KeyNames :
             IF \E c \in Callers : StoresSnapshot(c, o, n)
             THEN \A c \in Callers :
                     StoresSnapshot(c, o, n) =>
                        FetchSnapshotResult(o, n)' =
                           [snapshot |-> call'[c].value, err |-> FALSE]
             ELSE LET r == FetchSnapshotResult(o, n)
                  IN  IF /\ r.snapshot # NoSnapshot
                         /\ now' < snapshotCache[SnapshotKey(o, n)].expiry
                      THEN FetchSnapshotResult(o, n)' = r
                      ELSE FetchSnapshotResult(o, n)'.snapshot = NoSnapshot]_vars

\* C12: lastModify never decreases. While a History exists its lastModify
\* only grows, and it changes in no step but the one of a Store to that object
\* which sets it to the current time.
C12_LastModifyMonotonic ==
    [][\A o \in Objects :
          (o \in DOMAIN data /\ o \in DOMAIN data')
          => /\ data'[o].lastModify >= data[o].lastModify
             /\ (data'[o].lastModify # data[o].lastModify)
                   => \E c \in Callers :
                         /\ pc[c] = "Store_Touch"
                         /\ pc'[c] = "Store_Insert"
                         /\ call[c].obj = o
                         /\ data'[o].lastModify = now]_vars

\* A Store has refreshed, at the latest time of the model, the lastModify of
\* a History that already held a patch.
C12_Witness ==
    \E c \in Callers :
        /\ pc[c] = "Store_Insert"
        /\ call[c].obj \in DOMAIN data
        /\ data[call[c].obj].patches # EmptyMap
        /\ data[call[c].obj].lastModify = now
        /\ now = MaxTime

\* A step in which caller c enters or leaves StoreSnapshot or FetchSnapshot.
SnapshotStep(c) ==
    /\ pc'[c] # pc[c]
    /\ \/ pc[c] \in {"StoreSnapshot_Return", "FetchSnapshot_Return"}
       \/ pc'[c] \in {"StoreSnapshot_Return", "FetchSnapshot_Return"}

\* C13: independence of the two caches. The snapshot cache changes only in a
\* StoreSnapshot or in the expiry of its entries, never in a step of Store,
\* Fetch, List or a trim pass; StoreSnapshot, FetchSnapshot and snapshot
\* expiry change no History and leave the lock of the patch store as it is;
\* a step that changes the patch store (an eviction included) changes the
\* result of no FetchSnapshot, and a step that changes the snapshot cache or
\* advances the clock changes the result of no Fetch.
C13_Independence ==
    [][/\ (snapshotCache' # snapshotCache)
             => /\ data' = data
                /\ dataLock' = dataLock
                /\ trimPc' = trimPc
                /\ \/ \E c \in Callers :
                         pc[c] = "idle" /\ pc'[c] = "StoreSnapshot_Return"
                   \/ /\ pc' = pc
                      /\ DOMAIN snapshotCache' =
                            {x \in DOMAIN snapshotCache :
                                now < snapshotCache[x].expiry}
       /\ \A c \in Callers :
             SnapshotStep(c) => (data' = data /\ dataLock' = dataLock)
       /\ (data' # data)
             => \A o \in SnapshotObjects, n \in SnapshotNames :
                   FetchSnapshotResult(o, n)' = FetchSnapshotResult(o, n)
       /\ (snapshotCache' # snapshotCache \/ now' # now)
             => \A o \in Objects, oldRv \in OldRvs, newRv \in NewRvs :
                   FetchResult(o, oldRv, newRv)' = FetchResult(o, oldRv, newRv)
      ]_vars

\* A trim pass has just evicted the History of an object while it holds the
\* lock, and an unexpired snapshot of that object is still retrievable.
C13_Witness ==
    \E o \in SnapshotObjects, n \in SnapshotNames :
        /\ TrimPassScanned
        /\ o \in DOMAIN scanAge
        /\ o \notin DOMAIN data
        /\ FetchSnapshotResult(o, n).snapshot # NoSnapshot

C15_ListIgnoresLimit ==
    \A c \in Callers : Listing(c) =>
        /\ ~call[c].ret.err
        /\ call[c].limit \in AnyLimits
        /\ call[c].ret.keys =
              IF call[c].obj \in DOMAIN data
              THEN DOMAIN data[call[c].obj].patches
              ELSE {}

\* One List with limit 1 and one with a negative limit have both returned
\* the two keys of a History.
C15_Witness ==
    \E c1, c2 \in Callers :
        /\ Listing(c1)
        /\ Listing(c2)
        /\ call[c1].limit = 1
        /\ call[c2].limit = -1
        /\ Cardinality(call[c1].ret.keys) = 2
        /\ Cardinality(call[c2].ret.keys) = 2

InTrimPass == trimPc \in {"doTrim_Scan", "doTrim_Delete"}

RemovalSet == {removals[i] : i \in 1 .. Len(removals)}

\* C16: a trim pass is atomic and exact. From its scan to its last deletion
\* the pass holds the lock exclusively and no Store, Fetch or List is inside
\* the store; no History it has scanned has been touched since, the Histories
\* it is about to delete are exactly the scanned ones whose age at the scan
\* strictly exceeded the expiry, a scanned History of a smaller age is in the
\* map with every recorded patch, and a step of the pass changes the map only
\* by deleting the next of those Histories.
C16_TrimAtomic ==
    /\ [](InTrimPass =>
            /\ dataLock.writer = {TrimProc}
            /\ dataLock.readers = {}
            /\ \A c \in Callers :
                  ~StoreWriting(c) /\ ~Fetching(c) /\ ~Listing(c)
            /\ trimScanned = DOMAIN scanAge
            /\ \A o \in DOMAIN scanAge :
                  /\ (o \in DOMAIN data)
                        => now - data[o].lastModify >= scanAge[o]
                  /\ (scanAge[o] > cfg.PatchTtl)
                        <=> (o \in RemovalSet \/ o \notin DOMAIN data)
                  /\ (scanAge[o] <= cfg.PatchTtl)
                        => (o \in DOMAIN data /\ data[o].patches = lastStore[o])
            /\ RemovalSet \subseteq DOMAIN data)
    /\ [][InTrimPass =>
             \/ data' = data
             \/ /\ trimPc = "doTrim_Delete"
                /\ removals # << >>
                /\ scanAge[Head(removals)] > cfg.PatchTtl
                /\ data' = MapDelete(data, Head(removals))
                /\ removals' = Tail(removals)]_vars

\* A pass holds the lock before its deletions: it has scanned two Histories,
\* one to delete and one to keep that a Store refreshed before the pass took
\* the lock, while one caller waits to store and the other to read.
C16_Witness ==
    /\ trimPc = "doTrim_Delete"
    /\ \E o1, o2 \in DOMAIN scanAge :
          /\ removals = << o1 >>
          /\ scanAge[o1] > cfg.PatchTtl
          /\ scanAge[o2] = 0
          /\ Cardinality(DOMAIN data[o2].patches) = 2
    /\ \E c1, c2 \in Callers :
          /\ pc[c1] = "Store_Lock"
          /\ pc[c2] \in {"Fetch_RLock", "List_RLock"}

\* The resolver's answer for the version pair of patch p, its new version
\* present.
Resolved(p) == ChooseResourceVersion(p.old, p.new)

\* C17: Store never hits a resolution failure. The resolver accepts the pair
\* of every patch a Store holds; every patch in the map sits under the key the
\* resolver gives for its pair and never under the empty key of a failed
\* resolution; the inserting step of a Store adds that key and no other, and
\* from then on a Fetch of (O, P.old, present(P.new)) resolves to it and
\* finds P.
C17_StoreResolves ==
    /\ [](/\ \A c \in Callers : StoreWriting(c) => ~Resolved(call[c].patch).err
          /\ \A o \in DOMAIN data : \A k \in DOMAIN data[o].patches :
                /\ k # ""
                /\ Resolved(data[o].patches[k]) = [key |-> k, err |-> FALSE])
    /\ [][\A c \in Callers :
             (pc[c] = "Store_Insert" /\ pc'[c] = "Store_Unlock")
             => LET o == call[c].obj
                    p == call[c].patch
                IN  /\ DOMAIN data'[o].patches =
                          DOMAIN data[o].patches \cup {Resolved(p).key}
                    /\ FetchResult(o, p.old, p.new)' =
                          [patch |-> p, err |-> FALSE]]_vars

\* Under the policy that can fail, the new resource version as key, a Store
\* has inserted its patch under its new version next to another patch.
C17_Witness ==
    \E c \in Callers :
        /\ pc[c] = "Store_Unlock"
        /\ now = MaxTime
        /\ ~cfg.UseOldResourceVersion
        /\ DOMAIN data[call[c].obj].patches = {"2", "3"}
        /\ data[call[c].obj].patches[call[c].patch.new] = call[c].patch

RECURSIVE MaxOf(_)
MaxOf(S) ==
    IF S = {} THEN ZeroTime
    ELSE LET x == CHOOSE y \in S : TRUE
             m == MaxOf(S \ {x})
         IN  IF x > m THEN x ELSE m

\* The time of the latest recorded Store to object o.
LatestStore(o) == MaxOf({storedAt[o][k] : k \in DOMAIN storedAt[o]})

\* C18: eviction is per object, never per patch. No step removes a patch from
\* a History that stays in the map: a History loses its patches only all
\* together, with the History itself. While no Store is writing, a History
\* holds every patch stored since its last eviction, however long ago, and
\* its lastModify is the time of the latest of these Stores; a trim pass
\* keeps a History exactly if its age at the scan, counted from that latest
\* Store, does not exceed the expiry, whatever the age of its other patches.
C18_EvictionPerObject ==
    /\ [](/\ (\A c \in Callers : ~StoreWriting(c)) =>
                /\ DOMAIN data = DOMAIN storedAt
                /\ \A o \in DOMAIN data :
                      /\ DOMAIN data[o].patches = DOMAIN storedAt[o]
                      /\ data[o].patches = lastStore[o]
                      /\ data[o].lastModify = LatestStore(o)
          /\ TrimPassScanned =>
                \A o \in DOMAIN scanAge :
                    (o \in DOMAIN data) <=> (scanAge[o] <= cfg.PatchTtl))
    /\ [][\A o \in DOMAIN data :
             \/ o \notin DOMAIN data'
             \/ \A k \in DOMAIN data[o].patches :
                   /\ k \in DOMAIN data'[o].patches
                   /\ (data'[o].patches[k] # data[o].patches[k])
                         => \E c \in Callers :
                               /\ pc[c] = "Store_Insert"
                               /\ call[c].obj = o]_vars

\* A trim pass has scanned, at the current time, a History that holds a patch
\* stored longer ago than the expiry, and has kept it with both its patches
\* because a later Store to the object is within the expiry.
C18_Witness ==
    /\ TrimPassScanned
    /\ \E o \in DOMAIN scanAge :
          /\ o \in DOMAIN data
          /\ now - data[o].lastModify = scanAge[o]
          /\ Cardinality(DOMAIN data[o].patches) = 2
          /\ \E k \in DOMAIN data[o].patches :
                now - storedAt[o][k] > cfg.PatchTtl

\* The (object, name) pairs that are formatted to the composite key.
PairsOf(key) ==
    {pair \in KeyObjects \X KeyNames : SnapshotKey(pair[1], pair[2]) = key}

\* C19: snapshot entries of distinct (object, name) pairs never interfere.
\* Every key of the snapshot cache is the composite key of one pair only,
\* also for object strings and names that contain the separator, and a
\* StoreSnapshot(O1, n1, ..) changes the result of FetchSnapshot(O2, n2) for
\* no other pair.
C19_KeyInjective ==
    /\ [](\A key \in DOMAIN snapshotCache : Cardinality(PairsOf(key)) = 1)
    /\ [][\A c \in Callers : \A o1, o2 \in KeyObjects : \A n1, n2 \in KeyNames :
             (StoresSnapshot(c, o1, n1) /\ <<o1, n1>> # <<o2, n2>>)
             => FetchSnapshotResult(o2, n2)' = FetchSnapshotResult(o2, n2)]_vars

\* Caller c waits inside Lock() or RLock().
Waiting(c) == pc[c] \in {"Store_Lock", "Fetch_RLock", "List_RLock"}

\* The goroutines an operation in progress makes hold the lock.
Writers ==
    {c \in Callers : StoreWriting(c)}
        \cup (IF InTrimPass THEN {TrimProc} ELSE {})

Readers == {c \in Callers : Fetching(c) \/ Listing(c)}

\* C20: lock release and deadlock freedom. The lock is held exactly by the
\* operations in progress (a Store, a Fetch, a List or a trim pass between its
\* acquisition and its return) and by no operation that has returned, at most
\* one writer holds it and never together with a reader, and a writer is
\* announced only while it waits; under fair scheduling every caller and
\* every trim pass that waits for the lock eventually acquires it.
C20_LockReleased ==
    /\ [](/\ dataLock.writer = Writers
          /\ dataLock.readers = Readers
          /\ Cardinality(Writers) <= 1
          /\ (Writers # {}) => (Readers = {})
          /\ \A p \in dataLock.pending :
                \/ p = TrimProc /\ trimPc = "doTrim_Lock"
                \/ p \in Callers /\ pc[p] = "Store_Lock")
    /\ \A c \in Callers : []<>(~Waiting(c))
    /\ []<>(trimPc # "doTrim_Lock")

\* One caller waits to store behind a reader it has announced itself to,
\* while the trim pass waits to take the lock as well.
C20_Witness ==
    \E c1, c2 \in Callers :
        /\ pc[c1] = "Store_Lock"
        /\ dataLock.pending = {c1}
        /\ c2 \in dataLock.readers
        /\ trimPc = "doTrim_Lock"
====
